---- MODULE Spec2Model ----
(***************************************************************************)
(* A/B test controller of prompt-hub (backend/controllers/                *)
(* ab_test_controller.py over the records of backend/models/ab_test.py):  *)
(* the lifecycle of one stored test, the recording of run results, the    *)
(* aggregation of the results per (variant, model) pair and the report.   *)
(*                                                                         *)
(* Numbers.  Counts are integers.  Every float the code computes by a      *)
(* division is a rational <<num, den>> in lowest terms with den > 0, so    *)
(* that 1/5 and 2/10 are the same value and 0/3 is 0.0.  Inputs            *)
(* (generation_time_ms, cost_usd, ratings) are whole numbers of their      *)
(* unit.                                                                   *)
(***************************************************************************)
EXTENDS Integers, Sequences, FiniteSets, TLC

VARIABLES
    tests,     \* storage: test id -> the stored ABTest (save_test / get_test)
    reports,   \* storage: the reports handed to save_report, oldest first
    now,       \* the clock datetime.utcnow() reads
    ret,       \* the last controller call: its name and what it returned
    prev_op,   \* the name of the controller call before that one
    inflight,  \* concurrent calls: caller -> the call between its get_test
               \* and its save_test, with the test get_test handed it
    started,   \* concurrent calls: how many have begun (the uuid4 source)
    returned   \* concurrent calls: the result_id of every result whose
               \* record_result has returned, in the order of the returns

vars == <<tests, reports, now, ret, prev_op, inflight, started, returned>>

\* what the calls that run one at a time leave alone
calls == <<inflight, started, returned>>

\* Optional[T]: None is the empty tuple, a present value x of a type whose
\* values are not tuples is <<x>>; a float is already a pair
None == <<>>
Some(x) == <<x>>

(***************************************************************************)
(* Bounds of the model.                                                    *)
(***************************************************************************)
MaxResults == 2     \* results recorded in Spec
MaxClock == 3       \* readings of the clock in Spec
MaxReports == 1     \* reports saved in Spec
MaxPairRuns == 4    \* length of the result lists of SpecPairs
MaxTimedRuns == 5   \* length of the result lists of SpecTiming
MaxJudgedRuns == 5  \* length of the result lists of SpecJudged
MaxRankedRuns == 2  \* length of the result lists of SpecRanking
MaxOverThreshold == 1  \* SpecTiming: results beyond the quantiles threshold
MaxStarted == 3     \* calls begun in SpecConcurrent

(***************************************************************************)
(* Rationals.                                                              *)
(***************************************************************************)
Abs(n) == IF n < 0 THEN -n ELSE n

RECURSIVE GCD(_, _)
GCD(a, b) == IF b = 0 THEN a ELSE GCD(b, a % b)

\* n / d as a float: the quotient in lowest terms (d > 0)
Rat(n, d) ==
    LET g == GCD(Abs(n), d)
    IN  <<n \div g, d \div g>>

Zero == <<0, 1>>
RatOfInt(n) == <<n, 1>>
RatNeg(a) == <<-a[1], a[2]>>
RatLT(a, b) == a[1] * b[2] < b[1] * a[2]
RatLE(a, b) == a[1] * b[2] <= b[1] * a[2]
RatAdd(a, b) == Rat(a[1] * b[2] + b[1] * a[2], a[2] * b[2])

\* s[lo] + ... + s[hi], by halves
RECURSIVE SumRange(_, _, _)
SumRange(s, lo, hi) ==
    IF lo > hi THEN 0
    ELSE IF lo = hi THEN s[lo]
    ELSE LET mid == (lo + hi) \div 2
         IN  SumRange(s, lo, mid) + SumRange(s, mid + 1, hi)

\* sum(s) of whole numbers
SumSeq(s) == SumRange(s, 1, Len(s))

\* a / n for a count n > 0
RatDiv(a, n) == Rat(a[1], a[2] * n)

RECURSIVE RatSum(_)
RatSum(s) == IF s = <<>> THEN Zero ELSE RatAdd(Head(s), RatSum(Tail(s)))

Range(s) == {s[i] : i \in 1..Len(s)}

\* sorted(xs), ascending: place i holds the value v of xs with fewer than i
\* elements below it and at least i elements not above it
Sorted(xs) ==
    [i \in 1..Len(xs) |->
        CHOOSE v \in Range(xs) :
            /\ Cardinality({k \in 1..Len(xs) : xs[k] < v}) < i
            /\ Cardinality({k \in 1..Len(xs) : xs[k] <= v}) >= i]

(***************************************************************************)
(* The configuration of the test and the inputs of record_result.          *)
(***************************************************************************)
Variants == {"v1", "v2"}
Models == {"m1", "m2"}
Statuses == {"success", "error", "timeout"}
sample_size == 100     \* payload.get("sample_size", 100)

TestStatus == {"draft", "running", "paused", "completed", "archived"}
TestId == "t1"         \* the id create_test draws (uuid4)

\* TestResult: the fields aggregation reads.  generation_time_ms and cost_usd
\* are whole numbers, user_rating and auto_score are None or a rational,
\* comparison_winner is None, Some(TRUE) or Some(FALSE)
Run(v, m, st, t, tok, c, rating, score, win) ==
    [variant_id |-> v, model_id |-> m, status |-> st,
     generation_time_ms |-> t, total_tokens |-> tok, cost_usd |-> c,
     user_rating |-> rating, auto_score |-> score, comparison_winner |-> win]

\* the sequences over S of length at most n
SeqsUpTo(S, n) == UNION {[1..k -> S] : k \in 0..n}

(***************************************************************************)
(* aggregate_metrics: the grouping and the statistics of one group.        *)
(***************************************************************************)
PairKey(r) == <<r.variant_id, r.model_id>>

\* the elements of a set of positions, ascending
Ascending(positions) ==
    [i \in 1..Cardinality(positions) |->
        CHOOSE j \in positions : Cardinality({k \in positions : k <= j}) = i]

\* a slip: a key moves to the end at every result of its pair (last seen)
GroupKeysLastSeen(results) ==
    LET last == {j \in 1..Len(results) :
                    \A k \in (j + 1)..Len(results) :
                        PairKey(results[k]) # PairKey(results[j])}
    IN  [i \in 1..Cardinality(last) |-> PairKey(results[Ascending(last)[i]])]

\* the keys of the dict `groups`, in insertion order: a key enters at the
\* first result of its pair (setdefault), later results leave its place
GroupKeys(results) ==
    LET first == {j \in 1..Len(results) :
                     \A k \in 1..(j - 1) :
                         PairKey(results[k]) # PairKey(results[j])}
    IN  [i \in 1..Cardinality(first) |-> PairKey(results[Ascending(first)[i]])]

\* groups[key]: the results of the pair, in the order recorded
GroupOf(results, key) == SelectSeq(results, LAMBDA r : PairKey(r) = key)

IsSuccess(r) == r.status = "success"

\* statistics.median(times), times not empty
Median(times) ==
    LET data == Sorted(times)
        n == Len(data)
    IN  IF n % 2 = 1 THEN RatOfInt(data[n \div 2 + 1])
        ELSE Rat(data[n \div 2] + data[n \div 2 + 1], 2)

QuantilesThreshold == 100   \* len(times) >= 100
QuantilesN == 100           \* statistics.quantiles(times, n=100)

\* statistics.quantiles(times, n=100)[i - 1]: the default method, 'exclusive'
Quantile(times, i) ==
    LET data == Sorted(times)
        ld == Len(data)
        m == ld + 1
        j0 == (i * m) \div QuantilesN
        j == IF j0 < 1 THEN 1 ELSE IF j0 > ld - 1 THEN ld - 1 ELSE j0
        delta == i * m - j * QuantilesN
    IN  Rat(data[j] * (QuantilesN - delta) + data[j + 1] * delta, QuantilesN)

\* a slip: the index applied to times as recorded, not to sorted(times)
NearestRankUnsorted(times, pct) ==
    RatOfInt(times[(pct * (Len(times) - 1)) \div 100 + 1])

\* sorted(times)[int(pct/100 * (len(times) - 1))], times not empty
NearestRank(times, pct) ==
    RatOfInt(Sorted(times)[(pct * (Len(times) - 1)) \div 100 + 1])

Percentile(times, pct) ==
    IF Len(times) >= QuantilesThreshold THEN Quantile(times, pct)
    ELSE IF times # <<>> THEN NearestRank(times, pct)
    ELSE Zero

\* success_runs: len([r for r in results if r.status == "success"])
SuccessRuns(results) == Len(SelectSeq(results, IsSuccess))

\* a slip: only the status "error" counted, a "timeout" in neither count
ErrorRunsOnlyError(results) ==
    Len(SelectSeq(results, LAMBDA r : r.status = "error"))

\* error_runs: len([r for r in results if r.status != "success"])
ErrorRuns(results) == Len(SelectSeq(results, LAMBDA r : ~IsSuccess(r)))

\* wins: [1 if r.comparison_winner else 0 for r in results
\*        if r.comparison_winner is not None]
Wins(results) ==
    LET judged == SelectSeq(results, LAMBDA r : r.comparison_winner # None)
    IN  [i \in 1..Len(judged) |->
            IF judged[i].comparison_winner = Some(TRUE) THEN 1 ELSE 0]

\* win_rate: (sum(wins) / len(wins)) if wins else None
WinRate(wins) == IF wins # <<>> THEN Rat(SumSeq(wins), Len(wins)) ELSE None

\* a slip: the judged results as the denominator, as for win_rate
UserPreferenceRateOfJudged(wins, results) ==
    IF wins # <<>> THEN Rat(SumSeq(wins), Len(wins)) ELSE None

\* user_preference_rate: (sum(wins) / len(results)) if results else None
UserPreferenceRate(wins, results) ==
    IF results # <<>> THEN Rat(SumSeq(wins), Len(results)) ELSE None

\* the AggregateMetrics of one group
AggregateOf(key, results) ==
    LET ok == SelectSeq(results, IsSuccess)
        times == [i \in 1..Len(ok) |-> ok[i].generation_time_ms]
        tokens == [i \in 1..Len(ok) |-> ok[i].total_tokens]
        costs == [i \in 1..Len(ok) |-> ok[i].cost_usd]
        rated == SelectSeq(results, LAMBDA r : r.user_rating # None)
        ratings == [i \in 1..Len(rated) |-> rated[i].user_rating]
        wins == Wins(results)
        scored == SelectSeq(results, LAMBDA r : r.auto_score # None)
        auto_scores == [i \in 1..Len(scored) |-> scored[i].auto_score]
    IN  [variant_id |-> key[1],
         model_id |-> key[2],
         total_runs |-> Len(results),
         success_runs |-> SuccessRuns(results),
         error_runs |-> ErrorRuns(results),
         avg_generation_time_ms |->
             IF times # <<>> THEN Rat(SumSeq(times), Len(times)) ELSE Zero,
         p50_generation_time_ms |->
             IF times # <<>> THEN Median(times) ELSE Zero,
         p95_generation_time_ms |-> Percentile(times, 95),
         p99_generation_time_ms |-> Percentile(times, 99),
         total_tokens_used |-> IF tokens # <<>> THEN SumSeq(tokens) ELSE 0,
         avg_tokens_per_run |->
             IF tokens # <<>> THEN Rat(SumSeq(tokens), Len(tokens)) ELSE Zero,
         total_cost_usd |->
             IF costs # <<>> THEN RatOfInt(SumSeq(costs)) ELSE Zero,
         avg_cost_per_run |->
             IF costs # <<>> THEN Rat(SumSeq(costs), Len(costs)) ELSE Zero,
         avg_user_rating |->
             IF ratings # <<>> THEN RatDiv(RatSum(ratings), Len(ratings)) ELSE None,
         win_rate |-> WinRate(wins),
         user_preference_rate |-> UserPreferenceRate(wins, results),
         avg_auto_score |->
             IF auto_scores # <<>>
             THEN RatDiv(RatSum(auto_scores), Len(auto_scores)) ELSE None]

\* a variation: after the groups, an all-default entry for every pair of the
\* test's variants and models that has no result
AggregatesAllPairs(results) ==
    LET keys == GroupKeys(results)
        RECURSIVE Missing(_)
        Missing(pairs) ==
            IF pairs = {} THEN <<>>
            ELSE LET k == CHOOSE x \in pairs : TRUE
                 IN  <<AggregateOf(k, <<>>)>> \o Missing(pairs \ {k})
    IN  [i \in 1..Len(keys) |-> AggregateOf(keys[i], GroupOf(results, keys[i]))]
            \o Missing((Variants \X Models) \ Range(keys))

\* the list `aggregates`: one AggregateMetrics per key of `groups`
Aggregates(results) ==
    LET keys == GroupKeys(results)
    IN  [i \in 1..Len(keys) |-> AggregateOf(keys[i], GroupOf(results, keys[i]))]

(***************************************************************************)
(* generate_report: the winner of each variant and the overall statistics. *)
(***************************************************************************)
\* `x or 0` of a float or None: None and 0.0 are falsy
Or0(x) == IF x = None \/ x = Zero THEN Zero ELSE x

\* a slip: the cost not negated, so the dearer model ranks first
SortKeyCostNotNegated(x) ==
    <<Or0(x.win_rate),
      Or0(x.avg_user_rating),
      Or0(x.avg_cost_per_run),
      RatNeg(Or0(x.avg_generation_time_ms))>>

\* the sort key of an AggregateMetrics
SortKey(x) ==
    <<Or0(x.win_rate),
      Or0(x.avg_user_rating),
      RatNeg(Or0(x.avg_cost_per_run)),
      RatNeg(Or0(x.avg_generation_time_ms))>>

\* tuple comparison k1 < k2: the first differing component decides
RECURSIVE KeyLT(_, _)
KeyLT(k1, k2) ==
    IF k1 = <<>> THEN FALSE
    ELSE IF Head(k1) # Head(k2) THEN RatLT(Head(k1), Head(k2))
    ELSE KeyLT(Tail(k1), Tail(k2))

\* sorted(items, key=..., reverse=True): descending and stable, items with
\* equal keys stay in the order of `items`
RECURSIVE InsertDesc(_, _)
InsertDesc(x, s) ==
    IF s = <<>> THEN <<x>>
    ELSE IF ~KeyLT(SortKey(x), SortKey(Head(s))) THEN <<x>> \o s
    ELSE <<Head(s)>> \o InsertDesc(x, Tail(s))

RECURSIVE SortedDesc(_)
SortedDesc(items) ==
    IF items = <<>> THEN <<>>
    ELSE InsertDesc(Head(items), SortedDesc(Tail(items)))

\* by_variant[variant_id]: the aggregates of the variant, in list order
ByVariant(aggregates, variant_id) ==
    SelectSeq(aggregates, LAMBDA a : a.variant_id = variant_id)

\* best = sorted(items, ...)[0]
Best(items) == SortedDesc(items)[1]

\* winner_analysis: variant_id -> model_id of the best aggregate of the variant
WinnerAnalysis(aggregates) ==
    [v \in {aggregates[i].variant_id : i \in 1..Len(aggregates)} |->
        Best(ByVariant(aggregates, v)).model_id]

\* a variation: no figure, None, for the mean over zero aggregates
OverallStatsNoneWhenEmpty(aggregates) ==
    [total_runs |->
        SumSeq([i \in 1..Len(aggregates) |-> aggregates[i].total_runs]),
     total_cost_usd |->
        RatSum([i \in 1..Len(aggregates) |-> aggregates[i].total_cost_usd]),
     avg_cost_per_run |->
        IF aggregates # <<>>
        THEN RatDiv(RatSum([i \in 1..Len(aggregates) |->
                                aggregates[i].avg_cost_per_run]),
                    Len(aggregates))
        ELSE None]

\* overall_stats; sum(...) of no floats is 0
OverallStats(aggregates) ==
    [total_runs |->
        SumSeq([i \in 1..Len(aggregates) |-> aggregates[i].total_runs]),
     total_cost_usd |->
        RatSum([i \in 1..Len(aggregates) |-> aggregates[i].total_cost_usd]),
     avg_cost_per_run |->
        IF aggregates # <<>>
        THEN RatDiv(RatSum([i \in 1..Len(aggregates) |->
                                aggregates[i].avg_cost_per_run]),
                    Len(aggregates))
        ELSE Zero]

\* the ABTestReport built from the test read at the start and the aggregates
Report(t, aggregates) ==
    [test_id |-> TestId,
     test_summary |-> [status |-> t.status,
                       prompt_variants |-> Cardinality(t.prompt_variants),
                       model_configs |-> Cardinality(t.model_configs),
                       sample_size |-> t.sample_size],
     overall_stats |-> OverallStats(aggregates),
     variant_performance |-> aggregates,
     winner_analysis |-> WinnerAnalysis(aggregates),
     cost_benefit_analysis |-> <<>>,
     statistical_significance |-> <<>>,
     recommendations |-> <<>>]

(***************************************************************************)
(* The controller's operations on the stored test.  An operation on an id  *)
(* the store does not hold changes nothing and is not a step.              *)
(***************************************************************************)
Stored == tests # <<>>

\* ABTest(...) as create_test builds it
NewTest(created_at) ==
    [status |-> "draft",
     created_at |-> created_at,
     started_at |-> None,
     completed_at |-> None,
     prompt_variants |-> Variants,
     model_configs |-> Models,
     sample_size |-> sample_size,
     results |-> <<>>,
     aggregate_metrics |-> <<>>]

Returns(op, value) ==
    /\ ret' = [op |-> op, value |-> value]
    /\ prev_op' = ret.op

create_test ==
    /\ ~Stored
    /\ now < MaxClock
    /\ tests' = (TestId :> NewTest(now))
    /\ now' = now + 1
    /\ Returns("create_test", NewTest(now))
    /\ UNCHANGED <<reports, calls>>

\* test.status = RUNNING; test.started_at = utcnow()
Started(t, at) == [t EXCEPT !.status = "running", !.started_at = Some(at)]

\* a variation: a completed test is not started again
start_test_unless_completed ==
    /\ Stored
    /\ tests[TestId].status # "completed"
    /\ now < MaxClock
    /\ tests' = (TestId :> Started(tests[TestId], now))
    /\ now' = now + 1
    /\ Returns("start_test", Started(tests[TestId], now))
    /\ UNCHANGED <<reports, calls>>

start_test ==
    /\ Stored
    /\ now < MaxClock
    /\ tests' = (TestId :> Started(tests[TestId], now))
    /\ now' = now + 1
    /\ Returns("start_test", Started(tests[TestId], now))
    /\ UNCHANGED <<reports, calls>>

\* test.status = PAUSED
Paused(t) == [t EXCEPT !.status = "paused"]

pause_test ==
    /\ Stored
    /\ tests' = (TestId :> Paused(tests[TestId]))
    /\ Returns("pause_test", Paused(tests[TestId]))
    /\ UNCHANGED <<reports, now, calls>>

\* test.status = COMPLETED; test.completed_at = utcnow()
Completed(t, at) == [t EXCEPT !.status = "completed", !.completed_at = Some(at)]

complete_test ==
    /\ Stored
    /\ now < MaxClock
    /\ tests' = (TestId :> Completed(tests[TestId], now))
    /\ now' = now + 1
    /\ Returns("complete_test", Completed(tests[TestId], now))
    /\ UNCHANGED <<reports, calls>>

\* test.results.append(result)
Recorded(t, result) == [t EXCEPT !.results = Append(@, result)]

record_result(result) ==
    /\ Stored
    /\ Len(tests[TestId].results) < MaxResults
    /\ tests' = (TestId :> Recorded(tests[TestId], result))
    /\ Returns("record_result", result)
    /\ UNCHANGED <<reports, now, calls>>

\* a slip: the new aggregates added to the stored ones
AggregatedAppending(t) ==
    [t EXCEPT !.aggregate_metrics = @ \o Aggregates(t.results)]

\* test.aggregate_metrics = aggregates
Aggregated(t) == [t EXCEPT !.aggregate_metrics = Aggregates(t.results)]

aggregate_metrics ==
    /\ Stored
    /\ tests' = (TestId :> Aggregated(tests[TestId]))
    /\ Returns("aggregate_metrics", Aggregates(tests[TestId].results))
    /\ UNCHANGED <<reports, now, calls>>

\* a variation: the report always aggregates the results afresh
ReportAggregatesAlwaysFresh(t) == Aggregates(t.results)

\* aggregates = test.aggregate_metrics or self.aggregate_metrics(test_id)
ReportAggregates(t) ==
    IF t.aggregate_metrics # <<>> THEN t.aggregate_metrics
    ELSE Aggregates(t.results)

generate_report ==
    /\ Stored
    /\ Len(reports) < MaxReports
    /\ LET t == tests[TestId]
           report == Report(t, ReportAggregates(t))
       IN  /\ tests' = (TestId :> IF t.aggregate_metrics # <<>> THEN t
                                  ELSE Aggregated(t))
           /\ reports' = Append(reports, report)
           /\ Returns("generate_report", report)
    /\ UNCHANGED <<now, calls>>

(***************************************************************************)
(* Spec: every operation, on a test whose results come from RunInputs.     *)
(***************************************************************************)
RunInputs ==
    {Run("v1", "m1", "success", 100, 10, 1, None, None, None),
     Run("v1", "m2", "error", 200, 10, 1, None, None, None)}

Init ==
    /\ tests = <<>>
    /\ reports = <<>>
    /\ now = 0
    /\ ret = [op |-> "init", value |-> <<>>]
    /\ prev_op = "init"
    /\ inflight = <<>>
    /\ started = 0
    /\ returned = <<>>

Next ==
    \/ create_test
    \/ start_test
    \/ pause_test
    \/ complete_test
    \/ \E result \in RunInputs : record_result(result)
    \/ aggregate_metrics
    \/ generate_report

Spec == Init /\ [][Next]_vars

(***************************************************************************)
(* Aggregation and the report as functions of the recorded results: the    *)
(* test starts as create_test and a run of record_result calls leave it,   *)
(* its results drawn from a set of inputs, and is aggregated or reported.   *)
(***************************************************************************)
\* the state after create_test and one record_result per element of results
AfterRecording(results) ==
    /\ tests = (TestId :> [NewTest(0) EXCEPT !.results = results])
    /\ reports = <<>>
    /\ now = 1
    /\ ret = IF results = <<>>
             THEN [op |-> "create_test", value |-> NewTest(0)]
             ELSE [op |-> "record_result", value |-> results[Len(results)]]
    /\ prev_op = IF results = <<>> THEN "init"
                 ELSE IF Len(results) = 1 THEN "create_test"
                 ELSE "record_result"
    /\ inflight = <<>>
    /\ started = 0
    /\ returned = <<>>

NextAggregate == aggregate_metrics

NextReport == generate_report

\* SpecPairs: results of several pairs and every status
PairInputs ==
    {Run(k[1], k[2], st, 100, 10, 1, None, None, None) :
        k \in {<<"v1", "m1">>, <<"v1", "m2">>, <<"v2", "m1">>}, st \in Statuses}

InitPairs == \E results \in SeqsUpTo(PairInputs, MaxPairRuns) : AfterRecording(results)

SpecPairs == InitPairs /\ [][NextAggregate]_vars

\* SpecTiming: results of the pair (v1, m1) with several generation times
TimedInputs ==
    {Run("v1", "m1", st, t, 10, 1, None, None, None) :
        st \in {"success", "error"}, t \in {100, 200, 300}}

\* n successful results of (v1, m1) recorded slowest first: 300 ms in places
\* 1..a, 200 ms in places a+1..b, 100 ms in places b+1..n
LargeSample(n, a, b) ==
    [i \in 1..n |->
        Run("v1", "m1", "success",
            IF i <= a THEN 300 ELSE IF i <= b THEN 200 ELSE 100,
            10, 1, None, None, None)]

\* the places where the times change, near the ends and near the ranks the
\* median and the percentiles read
CutPoints == {1, 2, 5, 6, 49, 50, 51, 94, 95, 98}

\* samples around the threshold at which the percentiles become quantiles
LargeSamples ==
    {LargeSample(n, c[1], c[2]) :
        n \in (QuantilesThreshold - 1)..(QuantilesThreshold + MaxOverThreshold),
        c \in {d \in CutPoints \X CutPoints : d[1] < d[2]}}

InitTiming ==
    \E results \in SeqsUpTo(TimedInputs, MaxTimedRuns) \cup LargeSamples :
        AfterRecording(results)

SpecTiming == InitTiming /\ [][NextAggregate]_vars

\* SpecJudged: results of the pair (v1, m1), judged in a comparison or not
JudgedInputs ==
    {Run("v1", "m1", st, 100, 10, 1, None, None, win) :
        st \in {"success", "error"}, win \in {None, Some(TRUE), Some(FALSE)}}

InitJudged == \E results \in SeqsUpTo(JudgedInputs, MaxJudgedRuns) : AfterRecording(results)

SpecJudged == InitJudged /\ [][NextAggregate]_vars

\* SpecRanking: successful results of two models of v1 that differ in every
\* field the sort key reads, and of one model of v2
RankedInputs ==
    {Run("v1", m, "success", t, 10, c, rating, None, win) :
        m \in Models, t \in {100, 200}, c \in {1, 2},
        rating \in {None, RatOfInt(4)}, win \in {None, Some(TRUE)}}
    \cup {Run("v1", "m1", "success", 100, 10, 1, None, None, Some(FALSE)),
          Run("v2", "m2", "success", 100, 10, 1, None, None, None)}

InitRanking == \E results \in SeqsUpTo(RankedInputs, MaxRankedRuns) : AfterRecording(results)

SpecRanking == InitRanking /\ [][NextReport]_vars

(***************************************************************************)
(* SpecConcurrent: calls on the one test by several callers at once.  The  *)
(* store hands get_test's caller a snapshot and save_test overwrites the   *)
(* stored test (last write wins), so a call is two steps: get_test, then   *)
(* the change of the snapshot, save_test and the return.                   *)
(***************************************************************************)
Procs == {"p1", "p2"}

ConcurrentOps ==
    {"aggregate_metrics", "start_test", "pause_test", "complete_test"}

\* TestResult(result_id=str(uuid.uuid4()), ...)
WithResultId(result, id) == [result_id |-> id] @@ result

\* test = self.storage.get_test(test_id), the first step of every call
get_test(p, op, arg) ==
    /\ Stored
    /\ p \notin DOMAIN inflight
    /\ started < MaxStarted
    /\ inflight' = (p :> [op |-> op, test |-> tests[TestId], arg |-> arg])
                        @@ inflight
    /\ started' = started + 1
    /\ UNCHANGED <<tests, reports, now, ret, prev_op, returned>>

InFlight(p, op) == p \in DOMAIN inflight /\ inflight[p].op = op

\* the call of p is over
Done(p) == inflight' = [q \in DOMAIN inflight \ {p} |-> inflight[q]]

\* record_result from test.results.append(result) on
save_record_result(p) ==
    /\ InFlight(p, "record_result")
    /\ LET result == inflight[p].arg[1]
       IN  /\ tests' = (TestId :> Recorded(inflight[p].test, result))
           /\ Returns("record_result", result)
           /\ returned' = Append(returned, result.result_id)
    /\ Done(p)
    /\ UNCHANGED <<reports, now, started>>

\* aggregate_metrics from the grouping on
save_aggregate_metrics(p) ==
    /\ InFlight(p, "aggregate_metrics")
    /\ tests' = (TestId :> Aggregated(inflight[p].test))
    /\ Returns("aggregate_metrics", Aggregates(inflight[p].test.results))
    /\ Done(p)
    /\ UNCHANGED <<reports, now, started, returned>>

save_start_test(p) ==
    /\ InFlight(p, "start_test")
    /\ now < MaxClock
    /\ tests' = (TestId :> Started(inflight[p].test, now))
    /\ now' = now + 1
    /\ Returns("start_test", Started(inflight[p].test, now))
    /\ Done(p)
    /\ UNCHANGED <<reports, started, returned>>

save_pause_test(p) ==
    /\ InFlight(p, "pause_test")
    /\ tests' = (TestId :> Paused(inflight[p].test))
    /\ Returns("pause_test", Paused(inflight[p].test))
    /\ Done(p)
    /\ UNCHANGED <<reports, now, started, returned>>

save_complete_test(p) ==
    /\ InFlight(p, "complete_test")
    /\ now < MaxClock
    /\ tests' = (TestId :> Completed(inflight[p].test, now))
    /\ now' = now + 1
    /\ Returns("complete_test", Completed(inflight[p].test, now))
    /\ Done(p)
    /\ UNCHANGED <<reports, started, returned>>

InitConcurrent == AfterRecording(<<>>)

NextConcurrent ==
    \E p \in Procs :
        \/ \E op \in ConcurrentOps : get_test(p, op, None)
        \/ \E result \in RunInputs :
              get_test(p, "record_result", Some(WithResultId(result, started + 1)))
        \/ save_record_result(p)
        \/ save_aggregate_metrics(p)
        \/ save_start_test(p)
        \/ save_pause_test(p)
        \/ save_complete_test(p)

SpecConcurrent == InitConcurrent /\ [][NextConcurrent]_vars

(***************************************************************************)
(* Properties.                                                             *)
(***************************************************************************)
StoredResults == tests[TestId].results

\* the call that returned last was aggregate_metrics: ret.value is its list
AggregateReturned == ret.op = "aggregate_metrics"

EntryKey(a) == <<a.variant_id, a.model_id>>

\* the positions of the results of a pair in the stored results
PositionsOf(key) == {j \in 1..Len(StoredResults) : PairKey(StoredResults[j]) = key}

\* C1: in every list aggregate_metrics returns, each entry has
\* success_runs + error_runs = total_runs, and total_runs is the number of
\* results of the entry's (variant_id, model_id) pair, whatever their statuses.
C1_CountsAddUp ==
    AggregateReturned =>
        \A i \in 1..Len(ret.value) :
            LET a == ret.value[i]
            IN  /\ a.success_runs + a.error_runs = a.total_runs
                /\ a.total_runs = Cardinality(PositionsOf(EntryKey(a)))

\* a group with a success, an error and a timeout has been aggregated
C1_Witness ==
    /\ AggregateReturned
    /\ \E i \in 1..Len(ret.value) :
          /\ ret.value[i].success_runs = 1
          /\ ret.value[i].error_runs = 2
          /\ {StoredResults[j].status : j \in PositionsOf(EntryKey(ret.value[i]))}
                = Statuses

\* the least element of a non-empty set of positions
FirstOf(positions) == CHOOSE j \in positions : \A k \in positions : j <= k

\* C2: the list aggregate_metrics returns has one entry per pair that occurs
\* in the results, no pair twice, ordered by the first result of each pair.
C2_OneEntryPerPairFirstSeen ==
    AggregateReturned =>
        LET out == ret.value
        IN  /\ \A i, j \in 1..Len(out) : EntryKey(out[i]) = EntryKey(out[j]) => i = j
            /\ {EntryKey(out[i]) : i \in 1..Len(out)}
                  = {PairKey(StoredResults[j]) : j \in 1..Len(StoredResults)}
            /\ \A i, j \in 1..Len(out) :
                  i < j => FirstOf(PositionsOf(EntryKey(out[i])))
                              < FirstOf(PositionsOf(EntryKey(out[j])))

\* three pairs were aggregated, and the pair recorded first was also
\* recorded last
C2_Witness ==
    /\ AggregateReturned
    /\ Len(ret.value) = 3
    /\ Len(StoredResults) = 4
    /\ PairKey(StoredResults[1]) = PairKey(StoredResults[4])
    /\ EntryKey(ret.value[1]) = PairKey(StoredResults[1])

\* the (variant, model) pairs of the test
TestPairs == tests[TestId].prompt_variants \X tests[TestId].model_configs

\* an entry with every count 0, numeric averages 0.0, optional fields None
IsEmptyEntry(a) ==
    /\ a.total_runs = 0 /\ a.success_runs = 0 /\ a.error_runs = 0
    /\ a.avg_generation_time_ms = Zero /\ a.p50_generation_time_ms = Zero
    /\ a.p95_generation_time_ms = Zero /\ a.p99_generation_time_ms = Zero
    /\ a.avg_tokens_per_run = Zero /\ a.avg_cost_per_run = Zero
    /\ a.avg_user_rating = None /\ a.win_rate = None
    /\ a.user_preference_rate = None /\ a.avg_auto_score = None

ThreeRunsOfV1M1 ==
    /\ Len(StoredResults) = 3
    /\ \A j \in 1..3 : /\ PairKey(StoredResults[j]) = <<"v1", "m1">>
                       /\ StoredResults[j].status = "success"
                       /\ StoredResults[j].generation_time_ms = 100 * j

\* C3 as claimed: every pair of the test without results gets one entry, all
\* counts 0, averages 0.0 and optional fields None; (v1, m2) has such an
\* entry after three successful results of (v1, m1).
C3_EmptyPairHasEntry ==
    AggregateReturned =>
        \A key \in TestPairs :
            PositionsOf(key) = {} =>
                /\ Cardinality({i \in 1..Len(ret.value) :
                                   EntryKey(ret.value[i]) = key}) = 1
                /\ \A i \in 1..Len(ret.value) :
                      EntryKey(ret.value[i]) = key => IsEmptyEntry(ret.value[i])

\* C3 amended: a pair without results gets no entry, so every entry has
\* total_runs >= 1 and three successful results of (v1, m1) alone give one
\* entry (average and median 200); the defaults apply per statistic: an entry
\* without a successful result has its timing, token and cost figures 0, an
\* entry without a rated, judged or scored result has that field None.
C3_EmptyPairHasNoEntry ==
    AggregateReturned =>
        /\ \A key \in TestPairs :
              PositionsOf(key) = {} =>
                  \A i \in 1..Len(ret.value) : EntryKey(ret.value[i]) # key
        /\ \A i \in 1..Len(ret.value) :
              LET a == ret.value[i]
                  group == PositionsOf(EntryKey(a))
              IN  /\ a.total_runs >= 1
                  /\ a.user_preference_rate # None
                  /\ (\A j \in group : StoredResults[j].status # "success") =>
                        /\ a.avg_generation_time_ms = Zero
                        /\ a.p50_generation_time_ms = Zero
                        /\ a.p95_generation_time_ms = Zero
                        /\ a.p99_generation_time_ms = Zero
                        /\ a.total_tokens_used = 0
                        /\ a.avg_tokens_per_run = Zero
                        /\ a.total_cost_usd = Zero
                        /\ a.avg_cost_per_run = Zero
                  /\ (\A j \in group : StoredResults[j].user_rating = None) =>
                        a.avg_user_rating = None
                  /\ (\A j \in group : StoredResults[j].comparison_winner = None) =>
                        a.win_rate = None
                  /\ (\A j \in group : StoredResults[j].auto_score = None) =>
                        a.avg_auto_score = None
        /\ ThreeRunsOfV1M1 =>
              /\ Len(ret.value) = 1
              /\ EntryKey(ret.value[1]) = <<"v1", "m1">>
              /\ ret.value[1].avg_generation_time_ms = RatOfInt(200)
              /\ ret.value[1].p50_generation_time_ms = RatOfInt(200)

\* the three results of (v1, m1) were aggregated: one entry came back
C3_Witness ==
    /\ AggregateReturned
    /\ ThreeRunsOfV1M1
    /\ <<"v1", "m2">> \in TestPairs
    /\ Len(ret.value) = 1
    /\ ret.value[1].total_runs = 3

\* the generation times of the successful results of a pair
SuccessTimesOf(key) ==
    {StoredResults[j].generation_time_ms :
        j \in {k \in PositionsOf(key) : StoredResults[k].status = "success"}}

NumSuccessOf(key) ==
    Cardinality({k \in PositionsOf(key) : StoredResults[k].status = "success"})

\* v is at 0-based index idx of the sorted sample of the successful results
\* of the pair: at most idx results are below v and more than idx are not
\* above it
AtSortedIndex(key, v, idx) ==
    LET ok == {k \in PositionsOf(key) : StoredResults[k].status = "success"}
    IN  /\ Cardinality({k \in ok : StoredResults[k].generation_time_ms < v}) <= idx
        /\ Cardinality({k \in ok : StoredResults[k].generation_time_ms <= v}) > idx

JudgedOf(key) ==
    {j \in PositionsOf(key) : StoredResults[j].comparison_winner # None}

WonOf(key) ==
    {j \in PositionsOf(key) : StoredResults[j].comparison_winner = Some(TRUE)}

\* C4: win_rate is wins / judged results and is None exactly when the group
\* has no judged result; user_preference_rate is wins / total_runs, 0 and not
\* None without a judged result; one judged win among five runs gives
\* win_rate 1.0 and user_preference_rate 0.2.
C4_WinAndPreferenceRates ==
    AggregateReturned =>
        \A i \in 1..Len(ret.value) :
            LET a == ret.value[i]
                judged == Cardinality(JudgedOf(EntryKey(a)))
                won == Cardinality(WonOf(EntryKey(a)))
            IN  /\ (a.win_rate = None) <=> (judged = 0)
                /\ judged > 0 =>
                      /\ a.win_rate[1] * judged = won * a.win_rate[2]
                      /\ a.win_rate[2] > 0
                /\ a.user_preference_rate # None
                /\ a.user_preference_rate[1] * a.total_runs
                      = won * a.user_preference_rate[2]
                /\ a.user_preference_rate[2] > 0
                /\ judged = 0 => a.user_preference_rate = Zero
                /\ (judged = 1 /\ won = 1 /\ a.total_runs = 5) =>
                      /\ a.win_rate = <<1, 1>>
                      /\ a.user_preference_rate = <<1, 5>>

\* five runs of which one was judged, and won, have been aggregated
C4_Witness ==
    /\ AggregateReturned
    /\ Len(ret.value) = 1
    /\ ret.value[1].total_runs = 5
    /\ Cardinality(JudgedOf(<<"v1", "m1">>)) = 1
    /\ Cardinality(WonOf(<<"v1", "m1">>)) = 1
    /\ ret.value[1].win_rate = <<1, 1>>
    /\ ret.value[1].user_preference_rate = <<1, 5>>

\* the call that returned last was generate_report: ret.value is its report
ReportReturned == ret.op = "generate_report"

\* win_rate or 0, avg_user_rating or 0: an absent value ranks as 0
RankValue(x) == IF x = None THEN Zero ELSE x

\* a ranks strictly above b: higher win rate; then higher rating; then lower
\* cost; then lower latency
RanksAbove(a, b) ==
    LET wa == RankValue(a.win_rate)
        wb == RankValue(b.win_rate)
        ra == RankValue(a.avg_user_rating)
        rb == RankValue(b.avg_user_rating)
        ca == a.avg_cost_per_run
        cb == b.avg_cost_per_run
        ta == a.avg_generation_time_ms
        tb == b.avg_generation_time_ms
    IN  \/ RatLT(wb, wa)
        \/ wa = wb /\ RatLT(rb, ra)
        \/ wa = wb /\ ra = rb /\ RatLT(ca, cb)
        \/ wa = wb /\ ra = rb /\ ca = cb /\ RatLT(ta, tb)

\* C6: the winner of a variant is the model of the aggregate of the variant
\* that no other of its aggregates ranks above, the first such aggregate of
\* the list; an aggregate with a strictly lower win rate never wins.
C6_WinnerIsLexicographicBest ==
    ReportReturned =>
        LET aggs == ret.value.variant_performance
            winners == ret.value.winner_analysis
        IN  /\ DOMAIN winners = {aggs[i].variant_id : i \in 1..Len(aggs)}
            /\ \A v \in DOMAIN winners :
                  \E w \in 1..Len(aggs) :
                      /\ aggs[w].variant_id = v
                      /\ aggs[w].model_id = winners[v]
                      /\ \A i \in 1..Len(aggs) :
                            aggs[i].variant_id = v =>
                                /\ ~RanksAbove(aggs[i], aggs[w])
                                /\ i < w => RanksAbove(aggs[w], aggs[i])
                                /\ ~RatLT(RankValue(aggs[w].win_rate),
                                          RankValue(aggs[i].win_rate))

\* v1 has two models with the same win rate and rating; the second of the
\* list is cheaper, and slower, and is the winner
C6_Witness ==
    /\ ReportReturned
    /\ Len(ret.value.variant_performance) = 2
    /\ LET a == ret.value.variant_performance[1]
           b == ret.value.variant_performance[2]
       IN  /\ a.variant_id = "v1" /\ b.variant_id = "v1"
           /\ a.win_rate = b.win_rate
           /\ a.avg_user_rating = b.avg_user_rating
           /\ RatLT(b.avg_cost_per_run, a.avg_cost_per_run)
           /\ RatLT(a.avg_generation_time_ms, b.avg_generation_time_ms)
           /\ ret.value.winner_analysis["v1"] = b.model_id

\* C7: generate_report on a stored test without results returns a report
\* with total_runs 0, avg_cost_per_run 0, no winner and every list and
\* analysis empty, and the report is the one handed to save_report.
C7_ReportOfNoResults ==
    (ReportReturned /\ StoredResults = <<>>) =>
        /\ ret.value.overall_stats.total_runs = 0
        /\ ret.value.overall_stats.total_cost_usd = Zero
        /\ ret.value.overall_stats.avg_cost_per_run = Zero
        /\ ret.value.winner_analysis = <<>>
        /\ ret.value.variant_performance = <<>>
        /\ ret.value.cost_benefit_analysis = <<>>
        /\ ret.value.statistical_significance = <<>>
        /\ ret.value.recommendations = <<>>
        /\ reports # <<>>
        /\ reports[Len(reports)] = ret.value
        /\ tests[TestId].aggregate_metrics = <<>>

\* a report of a test without results has been returned and saved
C7_Witness ==
    /\ ReportReturned
    /\ StoredResults = <<>>
    /\ Len(reports) = 1
    /\ ret.value.overall_stats.total_runs = 0

\* C8: aggregate_metrics called right after aggregate_metrics returns the
\* list the first call returned and leaves the stored test as the first
\* call left it.
C8_AggregateTwice ==
    [][(ret.op = "aggregate_metrics" /\ ret'.op = "aggregate_metrics")
          => (ret'.value = ret.value /\ tests' = tests)]_vars

\* aggregate_metrics has been called twice in a row on a test with results
\* of two pairs
C8_Witness ==
    /\ AggregateReturned
    /\ prev_op = "aggregate_metrics"
    /\ Len(ret.value) = 2
    /\ tests[TestId].aggregate_metrics = ret.value

\* C9 as claimed: once set, started_at, completed_at and created_at of the
\* stored test are not assigned again.
C9_TimestampsSetOnce ==
    [][Stored =>
          /\ tests'[TestId].created_at = tests[TestId].created_at
          /\ tests[TestId].started_at # None
                => tests'[TestId].started_at = tests[TestId].started_at
          /\ tests[TestId].completed_at # None
                => tests'[TestId].completed_at = tests[TestId].completed_at]_vars

\* the three setters are accepted whatever the status of the stored test
\* (while the clock of the model can still be read)
C10_Accepted ==
    (Stored /\ now < MaxClock) =>
        /\ ENABLED start_test
        /\ ENABLED pause_test
        /\ ENABLED complete_test

\* the status each call leaves, and never archived
C10_StatusAfterCall ==
    Stored =>
        /\ ret.op = "create_test" => tests[TestId].status = "draft"
        /\ ret.op = "start_test" => tests[TestId].status = "running"
        /\ ret.op = "pause_test" => tests[TestId].status = "paused"
        /\ ret.op = "complete_test" => tests[TestId].status = "completed"
        /\ tests[TestId].status \in TestStatus \ {"archived"}

\* C10: on a stored test in whatever status start_test, pause_test and
\* complete_test are accepted and leave the status running, paused and
\* completed; create_test leaves it draft; no call makes a test that left
\* draft a draft again, and none archives it.
C10_UnguardedTransitions ==
    /\ [](C10_Accepted /\ C10_StatusAfterCall)
    /\ [][Stored =>
             /\ tests'[TestId].status = "draft" => tests[TestId].status = "draft"
             /\ ret'.op \in {"record_result", "aggregate_metrics", "generate_report"}
                   => tests'[TestId].status = tests[TestId].status]_vars

\* start_test was called on a completed test, which is running now
C10_Witness ==
    /\ Stored
    /\ ret.op = "start_test"
    /\ prev_op = "complete_test"
    /\ tests[TestId].status = "running"
    /\ tests[TestId].completed_at # None

\* the sum of total_runs over a list of aggregates
TotalRunsOf(aggregates) ==
    SumSeq([i \in 1..Len(aggregates) |-> aggregates[i].total_runs])

\* C11: generate_report aggregates the results itself, and stores what it
\* computed, exactly when the stored aggregate_metrics list is empty;
\* otherwise the report is built from the stored aggregates and the stored
\* test stays as it is, so overall_stats.total_runs is the sum of their
\* total_runs even when more results have been recorded since.
C11_ReportUsesStoredAggregates ==
    [][(ret'.op = "generate_report" /\ reports' # reports) =>
          LET t == tests[TestId]
              used == ret'.value.variant_performance
          IN  /\ t.aggregate_metrics # <<>> =>
                    /\ used = t.aggregate_metrics
                    /\ tests' = tests
              /\ t.aggregate_metrics = <<>> =>
                    /\ used = Aggregates(t.results)
                    /\ tests'[TestId].aggregate_metrics = used
              /\ ret'.value.overall_stats.total_runs
                    = TotalRunsOf(tests'[TestId].aggregate_metrics)]_vars

\* record_result, aggregate_metrics, record_result, generate_report: two
\* results are stored and the report counts the one that was aggregated
C11_Witness ==
    /\ ReportReturned
    /\ prev_op = "record_result"
    /\ Len(StoredResults) = 2
    /\ tests[TestId].aggregate_metrics # <<>>
    /\ ret.value.variant_performance = tests[TestId].aggregate_metrics
    /\ ret.value.overall_stats.total_runs = 1

\* the result_id of the stored results, in their stored order
StoredResultIds ==
    [i \in 1..Len(StoredResults) |-> StoredResults[i].result_id]

\* C12 as claimed: under every interleaving of record_result,
\* aggregate_metrics, start_test, pause_test and complete_test, the results
\* whose record_result has returned are all in the stored results, in the
\* order in which they were appended.
C12_ResultsAppendOnly ==
    SelectSeq(StoredResultIds, LAMBDA id : id \in Range(returned)) = returned

====
